---- MODULE Spec2Model ----
(***************************************************************************)
(* Tool-call dispatch of aviary's Environment (src/src/aviary/env.py):     *)
(* filter_invalid_tool_calls, exec_tool_calls with its inner coroutine     *)
(* _exec_tool_call, and is_coroutine_callable (src/src/aviary/utils.py).   *)
(*                                                                         *)
(* exec_tool_calls runs on an asyncio event loop.  The loop is modelled by *)
(* its FIFO queue of ready callbacks: the first step of every task that    *)
(* asyncio.gather creates, the wake-up of a suspended task, gather's       *)
(* done-callback of a finished task and the wake-up of the caller.  What   *)
(* happens outside the loop (a worker thread finishing a function, an      *)
(* awaited future completing) is an action of its own that appends a       *)
(* wake-up to the queue.                                                   *)
(*                                                                         *)
(* Further parts, each with a specification of its own over the same       *)
(* variables: TaskDataset.iter_batches as a generator (SpecBatches),       *)
(* CalculatorEnv.step and check_answer (SpecCalculator), the splits of     *)
(* GSM8kDataset (SpecGsm8k), utils.partial_format (SpecFormat),            *)
(* from_name with the two registries (SpecRegistry) and DummyEnv with its  *)
(* reset and step (SpecDummy).                                             *)
(***************************************************************************)
EXTENDS Integers, Sequences, FiniteSets, TLC

\* ------------------------------------------------------------------ bounds

\* Longest tool_calls list of a message.
MaxCalls == 2

\* ------------------------------------------------------- Python values

None == [type |-> "NoneType", val |-> "None"]
Str(s) == [type |-> "str", val |-> s]
Int_(s) == [type |-> "int", val |-> s]
\* A pydantic model: its fields in declaration order, each with its alias
\* and its value (None for an unset optional field).
Model(fields) == [type |-> "BaseModel", val |-> fields]

Exc(t, text) == [type |-> t, text |-> text]
NoExc == [type |-> "", text |-> ""]

\* CO_COROUTINE, the bit of code.co_flags that utils.py tests.
CO_COROUTINE == 128

\* x & 0x80 on non-negative integers.
BitAnd80(x) == ((x \div CO_COROUTINE) % 2) * CO_COROUTINE

\* isinstance(v, int) for a value that is the result of an integer operation.
IsInstanceInt(v) == v \in Int

\* The Python objects a tool's _tool_fn can be, by the attributes that
\* is_coroutine_callable reads: whether the object is a FunctionType or
\* MethodType, its __code__.co_flags, whether it is callable, whether its
\* __call__ is a FunctionType or MethodType, and __call__.__code__.co_flags.
\* co_flags 3 is CO_OPTIMIZED|CO_NEWLOCALS (def), 131 adds CO_COROUTINE
\* (async def).
SyncDef == [kind |-> "sync_def", is_function |-> TRUE, co_flags |-> 3,
            is_callable |-> TRUE, call_is_function |-> FALSE, call_co_flags |-> 0]
AsyncDef == [kind |-> "async_def", is_function |-> TRUE, co_flags |-> 131,
             is_callable |-> TRUE, call_is_function |-> FALSE, call_co_flags |-> 0]
SyncMethod == [kind |-> "sync_method", is_function |-> TRUE, co_flags |-> 3,
               is_callable |-> TRUE, call_is_function |-> FALSE, call_co_flags |-> 0]
AsyncMethod == [kind |-> "async_method", is_function |-> TRUE, co_flags |-> 131,
                is_callable |-> TRUE, call_is_function |-> FALSE, call_co_flags |-> 0]
SyncCallableObj == [kind |-> "sync_callable_obj", is_function |-> FALSE, co_flags |-> 0,
                    is_callable |-> TRUE, call_is_function |-> TRUE, call_co_flags |-> 3]
AsyncCallableObj == [kind |-> "async_callable_obj", is_function |-> FALSE, co_flags |-> 0,
                     is_callable |-> TRUE, call_is_function |-> TRUE, call_co_flags |-> 131]
\* functools.partial of a def, or a builtin: callable, __call__ is a
\* method-wrapper.
PartialObj == [kind |-> "partial", is_function |-> FALSE, co_flags |-> 0,
               is_callable |-> TRUE, call_is_function |-> FALSE, call_co_flags |-> 0]
NonCallable == [kind |-> "non_callable", is_function |-> FALSE, co_flags |-> 0,
                is_callable |-> FALSE, call_is_function |-> FALSE, call_co_flags |-> 0]

PyObjects == {SyncDef, AsyncDef, SyncMethod, AsyncMethod, SyncCallableObj,
              AsyncCallableObj, PartialObj, NonCallable}

\* What Python does when the object is called: TRUE when the call returns a
\* coroutine (the code that runs has CO_COROUTINE set), FALSE when the call
\* runs the body and returns its value.
ReturnsCoroutine(obj) ==
    IF obj.is_function THEN BitAnd80(obj.co_flags) # 0
    ELSE obj.call_is_function /\ BitAnd80(obj.call_co_flags) # 0

\* utils.is_coroutine_callable
is_coroutine_callable(obj) ==
    IF obj.is_function
    THEN IsInstanceInt(BitAnd80(obj.co_flags))
    ELSE IF obj.is_callable /\ obj.call_is_function
         THEN IsInstanceInt(BitAnd80(obj.call_co_flags))
         ELSE FALSE

\* --------------------------------------------------- tools and messages

\* Keywords of **function_kwargs and the values they are given.
KwKeys == {"state", "extra"}
KwValues(k) == IF k = "state" THEN {"STATE"} ELSE {"EXTRA"}
AllKwargs ==
    UNION {{f \in [K -> {"STATE", "EXTRA"}] : \A k \in K : f[k] \in KwValues(k)} :
           K \in SUBSET KwKeys}

\* self.tools.  Of each tool: info.name; _tool_fn as a Python object;
\* sig_params, the names in inspect.signature(_tool_fn).parameters;
\* requires_state, hasattr(_tool_fn, "requires_state"); accepts and required,
\* the extra keywords the callable can and must be called with; body, what the
\* function does for each of the arguments it can be called with.
tools == <<
    \* DummyEnv.reset's print_story(story, state) -> None
    [name |-> "print_story", fn |-> SyncDef, sig_params |-> {"story", "state"},
     requires_state |-> FALSE, accepts |-> {"state"}, required |-> {"state"},
     body |-> [a \in {"story"} |-> [raises |-> NoExc, returns |-> None]]],
    \* test_tools.py's get_todo_list(n) -> str
    [name |-> "get_todo_list", fn |-> SyncDef, sig_params |-> {"n"},
     requires_state |-> FALSE, accepts |-> {}, required |-> {},
     body |-> [a \in {"n=1", "n=2"} |->
                 [raises |-> NoExc,
                  returns |-> IF a = "n=1" THEN Str("Go for a walk")
                              ELSE Str("Go for a walk\nRead a book")]]],
    \* an async def wrapped by argref_by_name: the signature is the wrapped
    \* function's, the wrapper has requires_state and takes any keyword
    [name |-> "async_add", fn |-> AsyncDef, sig_params |-> {"a", "b"},
     requires_state |-> TRUE, accepts |-> {"state", "extra"}, required |-> {"state"},
     body |-> [a \in {"a=1,b=2"} |-> [raises |-> NoExc, returns |-> Str("3")]]],
    \* an async def whose body raises
    [name |-> "async_fail", fn |-> AsyncDef, sig_params |-> {"x"},
     requires_state |-> FALSE, accepts |-> {"extra"}, required |-> {},
     body |-> [a \in {"x=0"} |->
                 [raises |-> Exc("ZeroDivisionError", "division by zero"),
                  returns |-> None]]],
    \* functools.partial of a def that returns a pydantic model
    [name |-> "partial_tool", fn |-> PartialObj, sig_params |-> {"x"},
     requires_state |-> FALSE, accepts |-> {"extra"}, required |-> {},
     body |-> [a \in {"x=1"} |->
                 [raises |-> NoExc,
                  returns |-> Model(<<[alias |-> "defaultedInt", value |-> Int_("1")],
                                      [alias |-> "optionalStr", value |-> None]>>)]]]
>>

ToolNames == {tools[k].name : k \in 1..Len(tools)}
\* A name that no tool of the environment has.
UnknownNames == {"no_such_tool"}
CallNames == ToolNames \cup UnknownNames

\* ToolCall ids (unique within a message).
CallIds == {"call_a", "call_b", "call_c"}

\* tool_call.function.arguments that a call naming `name` can carry.
ArgumentsOf(name) ==
    IF \E k \in 1..Len(tools) : tools[k].name = name
    THEN DOMAIN (tools[CHOOSE k \in 1..Len(tools) : tools[k].name = name].body)
    ELSE {"x=1"}

ToolCalls ==
    UNION {[id : CallIds, name : {nm}, arguments : ArgumentsOf(nm)] : nm \in CallNames}

\* Lists of tool calls with distinct ids, up to MaxCalls long.
ToolCallLists ==
    UNION {{s \in [1..n -> ToolCalls] :
              \A i, j \in 1..n : i # j => s[i].id # s[j].id} : n \in 0..MaxCalls}

\* ToolRequestMessage
ToolRequestMessage(role, content, function_call, tool_calls) ==
    [role |-> role, content |-> content, function_call |-> function_call,
     tool_calls |-> tool_calls]

\* ToolResponseMessage.from_call(tool_call, content)
from_call(tool_call, content) ==
    [role |-> "tool", tool_call_id |-> tool_call.id, name |-> tool_call.name,
     content |-> content]

\* next(t for t in self.tools if t.info.name == name): the index of the first
\* tool of that name, 0 when there is none (StopIteration, or the default None).
FirstTool(name) ==
    IF \E k \in 1..Len(tools) : tools[k].name = name
    THEN CHOOSE k \in 1..Len(tools) :
            /\ tools[k].name = name
            /\ \A j \in 1..(k - 1) : tools[j].name # name
    ELSE 0

\* ------------------------------------------- filter_invalid_tool_calls

RECURSIVE SelectCalls(_, _)
\* The calls of the list whose being known equals `known`, in list order.
SelectCalls(calls, known) ==
    IF calls = <<>> THEN <<>>
    ELSE LET c == Head(calls)
             rest == SelectCalls(Tail(calls), known)
         IN IF (FirstTool(c.name) # 0) = known THEN <<c>> \o rest ELSE rest

\* filter_invalid_tool_calls with the two lists in the other order.
filter_invalid_tool_calls_swapped(message) ==
    <<ToolRequestMessage(message.role, message.content, message.function_call,
                         SelectCalls(message.tool_calls, FALSE)),
      ToolRequestMessage(message.role, message.content, message.function_call,
                         SelectCalls(message.tool_calls, TRUE))>>

\* Environment.filter_invalid_tool_calls: <<valid message, invalid message>>
filter_invalid_tool_calls(message) ==
    <<ToolRequestMessage(message.role, message.content, message.function_call,
                         SelectCalls(message.tool_calls, TRUE)),
      ToolRequestMessage(message.role, message.content, message.function_call,
                         SelectCalls(message.tool_calls, FALSE))>>

\* ---------------------------------------------- _exec_tool_call, by parts

\* need_to_filter without its hasattr(tool._tool_fn, "requires_state") test.
need_to_filter_signature_only(function_kwargs, tool) ==
    /\ "state" \in DOMAIN function_kwargs
    /\ "state" \notin tool.sig_params

\* need_to_filter of _exec_tool_call
need_to_filter(function_kwargs, tool) ==
    /\ "state" \in DOMAIN function_kwargs
    /\ "state" \notin tool.sig_params
    /\ ~tool.requires_state

\* filtered_kwargs of _exec_tool_call
filtered_kwargs(function_kwargs, tool) ==
    IF need_to_filter(function_kwargs, tool)
    THEN [k \in (DOMAIN function_kwargs) \ {"state"} |-> function_kwargs[k]]
    ELSE function_kwargs

\* Python's call tool._tool_fn(**arguments, **kwargs) run to its end: a
\* TypeError when the keywords do not bind to the callable's parameters,
\* else what the body does.
Binds(tool, kwargs) ==
    /\ (DOMAIN kwargs) \subseteq tool.accepts
    /\ tool.required \subseteq DOMAIN kwargs

CallOutcome(tool, arguments, kwargs) ==
    IF ~Binds(tool, kwargs)
    THEN [raises |-> Exc("TypeError", tool.name \o "() got unexpected or missing keyword arguments"),
          returns |-> None]
    ELSE tool.body[arguments]

\* `await v` of a value that is not awaitable (every value of the model).
AwaitValue(v) ==
    [raises |-> Exc("TypeError", "object " \o v.type \o " can't be used in 'await' expression"),
     returns |-> None]

\* What `content = await tool._tool_fn(...)` yields for an ordinary function:
\* the call runs the body on the event-loop thread, then its return value is
\* awaited.
InlineOutcome(tool, arguments, kwargs) ==
    LET out == CallOutcome(tool, arguments, kwargs)
    IN IF out.raises # NoExc THEN out ELSE AwaitValue(out.returns)

\* What `content = await asyncio.to_thread(tool._tool_fn, ...)` yields: the
\* value the call returns on the worker thread, which for a coroutine function
\* is the coroutine object, never awaited.
ThreadOutcome(tool, arguments, kwargs) ==
    LET out == CallOutcome(tool, arguments, kwargs)
    IN IF ReturnsCoroutine(tool.fn) /\ out.raises = NoExc
       THEN [raises |-> NoExc, returns |-> [type |-> "coroutine", val |-> "coroutine"]]
       ELSE out

\* json.dumps of the values of the model; it raises TypeError for the others.
JsonSerializable(v) == v.type \in {"NoneType", "int", "str"}
json_dumps(v) ==
    IF v.type = "NoneType" THEN "null"
    ELSE IF v.type = "str" THEN "\"" \o v.val \o "\""
    ELSE v.val

RECURSIVE DumpFields(_, _)
\* The members of the JSON object of the fields, None fields left out, keyed
\* by alias; `first` says that no member has been written yet.
DumpFields(fields, first) ==
    IF fields = <<>> THEN ""
    ELSE LET f == Head(fields)
         IN IF f.value = None THEN DumpFields(Tail(fields), first)
            ELSE (IF first THEN "" ELSE ",")
                 \o "\"" \o f.alias \o "\":" \o json_dumps(f.value)
                 \o DumpFields(Tail(fields), FALSE)

\* content.model_dump_json(exclude_none=True, by_alias=True)
model_dump_json(content) == "{" \o DumpFields(content.val, TRUE) \o "}"

\* logger_msg
logger_msg(tool) == "Failed to execute tool call for tool " \o tool.name

\* s_content, from tool_exc (NoExc for Python's None) and content
s_content(tool, tool_exc, content) ==
    IF tool_exc # NoExc THEN logger_msg(tool) \o ":\n" \o tool_exc.text
    ELSE IF content.type = "str" THEN content.val
    ELSE IF content.type = "BaseModel" THEN model_dump_json(content)
    ELSE json_dumps(content)

NoResponse == [role |-> "", tool_call_id |-> "", name |-> "", content |-> ""]

\* The except clause and what follows it: from the outcome of the try block,
\* how _exec_tool_call ends, with an exception (ok FALSE) or with a response.
ExecEnd(tool, tool_call, handle, out) ==
    IF out.raises # NoExc /\ ~handle
    THEN [ok |-> FALSE, exc |-> out.raises, response |-> NoResponse]
    ELSE IF out.raises = NoExc /\ out.returns.type \notin {"str", "BaseModel"}
            /\ ~JsonSerializable(out.returns)
    THEN [ok |-> FALSE,
          exc |-> Exc("TypeError", "Object of type " \o out.returns.type
                                    \o " is not JSON serializable"),
          response |-> NoResponse]
    ELSE [ok |-> TRUE, exc |-> NoExc,
          response |-> from_call(tool_call, s_content(tool, out.raises, out.returns))]

\* The ValueError of an unknown tool name
NotValid(name) == Exc("ValueError", name \o " not a valid function.")

\* ------------------------------------------------------------------ state

VARIABLES
    pc,               \* the caller: "idle", "awaiting" exec_tool_calls, "returned", "raised"
    message,          \* exec_tool_calls' message
    ordered,          \* its ordered flag
    handle_tool_exc,  \* its handle_tool_exc flag
    function_kwargs,  \* its **function_kwargs
    ready,            \* the event loop's FIFO queue of ready callbacks
    task,             \* per tool call, the run of _exec_tool_call(tool_call)
    outer,            \* the future asyncio.gather returns
    result,           \* the list exec_tool_calls returned
    raisedExc,        \* the exception exec_tool_calls raised
    ret,              \* the last call of a function that is not a coroutine
    dataset,          \* the TaskDataset iter_batches was called on
    batch_size,       \* iter_batches' batch_size
    shuffle,          \* its shuffle flag
    gen,              \* the generator: "none", "created", "suspended" at a yield, "finished"
    idcs,             \* its local idcs
    by_idx,           \* the arguments of the get_new_env_by_idx calls so far, in call order
    new_envs,         \* the number of get_new_env calls so far
    yielded,          \* the batches yielded so far
    registries,       \* the module's _ENV_REGISTRY and TASK_DATASET_REGISTRY
    dummy             \* a DummyEnv: end_immediately, whether reset, its state

\* The state of exec_tool_calls and of the plain functions.
execVars == <<pc, message, ordered, handle_tool_exc, function_kwargs, ready, task,
              outer, result, raisedExc, ret>>

\* The state of an iter_batches generator.
iterVars == <<dataset, batch_size, shuffle, gen, idcs, by_idx, new_envs, yielded>>

vars == <<pc, message, ordered, handle_tool_exc, function_kwargs, ready, task,
          outer, result, raisedExc, ret, dataset, batch_size, shuffle, gen, idcs,
          by_idx, new_envs, yielded, registries, dummy>>

\* What a call of a plain function leaves alone.
plainVars == <<message, ordered, handle_tool_exc, function_kwargs, ready, task,
               outer, result, raisedExc>>

\* _ENV_REGISTRY: name -> (module name, class name)
ENV_REGISTRY ==
    [name \in {"dummy", "calculator", "hotpotqa"} |->
       IF name = "dummy" THEN <<"aviary.env", "DummyEnv">>
       ELSE IF name = "calculator" THEN <<"aviary.gsm8k.env", "CalculatorEnv">>
       ELSE <<"aviary.hotpotqa.env", "HotPotQAEnv">>]

\* TASK_DATASET_REGISTRY
TASK_DATASET_REGISTRY ==
    [name \in {"dummy", "gsm8k", "hotpotqa"} |->
       IF name = "dummy" THEN <<"aviary.env", "DummyTaskDataset">>
       ELSE IF name = "gsm8k" THEN <<"aviary.gsm8k.env", "GSM8kDataset">>
       ELSE <<"aviary.hotpotqa.env", "HotPotQADataset">>]

Callback(cb, i) == [cb |-> cb, i |-> i]

\* A run of _exec_tool_call.  st: "pending" (created, first step not run),
\* "on_loop" (its tool function is running on the event-loop thread),
\* "suspended" (awaiting), "woken" (its wake-up is queued), "done", "failed".
\* fn: the tool function, "not_called", "running", "returned" or "raised".
\* via: how the function was invoked, "await" or "to_thread".  received: the
\* extra keywords it was called with.
NewTask ==
    [st |-> "pending", fn |-> "not_called", via |-> "none", received |-> <<>>,
     exc |-> NoExc, response |-> NoResponse]

NoOuter == [done |-> FALSE, exc |-> NoExc, result |-> <<>>, nfinished |-> 0]
NoRet == [op |-> "none"]

NCalls == Len(message.tool_calls)
Call(i) == message.tool_calls[i]
ToolOf(i) == tools[FirstTool(Call(i).name)]

\* The event-loop thread is inside a tool function.
LoopBlocked == \E i \in 1..NCalls : task[i].st = "on_loop"

\* DummyEnvState(messages=...) with its defaults
DummyEnvState(messages) == [messages |-> messages, reward |-> 0, done |-> FALSE]

\* No DummyEnv has been constructed.  Of a DummyEnv: end_immediately; is_reset,
\* whether reset() has set self.tools and self.state; state; printed, whether
\* print_story has run since the reset; steps, the step() calls so far.
NoDummyEnv ==
    [made |-> FALSE, end_immediately |-> TRUE, is_reset |-> FALSE,
     state |-> DummyEnvState(<<>>), printed |-> FALSE, steps |-> 0]

\* No dataset: iter_batches has not been called.
NoDataset == [has_len |-> FALSE, len |-> 0]

Init ==
    /\ pc = "idle"
    /\ message = ToolRequestMessage("assistant", "None", "None", <<>>)
    /\ ordered = FALSE
    /\ handle_tool_exc = FALSE
    /\ function_kwargs = <<>>
    /\ ready = <<>>
    /\ task = <<>>
    /\ outer = NoOuter
    /\ result = <<>>
    /\ raisedExc = NoExc
    /\ ret = NoRet
    /\ dataset = NoDataset
    /\ batch_size = 0
    /\ shuffle = FALSE
    /\ gen = "none"
    /\ idcs = <<>>
    /\ by_idx = <<>>
    /\ new_envs = 0
    /\ yielded = <<>>
    /\ registries = [env |-> ENV_REGISTRY, task |-> TASK_DATASET_REGISTRY]
    /\ dummy = NoDummyEnv

\* The caller is free to make a call.
Idle == pc = "idle"

\* ----------------------------------------------------- exec_tool_calls

\* InitialReady that gathers whatever `ordered` says.
InitialReadyAlwaysGather(n, ord) ==
    IF n = 0 THEN (IF ord THEN <<>> ELSE <<Callback("caller", 0)>>)
    ELSE [i \in 1..n |-> Callback("step", i)]

\* What the body of exec_tool_calls puts on the loop: with gather, a task per
\* tool call, each with its first step queued in list order (or, for no call,
\* the caller's wake-up on the finished future); with ordered, the first call.
InitialReady(n, ord) ==
    IF ~ord
    THEN IF n = 0 THEN <<Callback("caller", 0)>>
         ELSE [i \in 1..n |-> Callback("step", i)]
    ELSE IF n = 0 THEN <<>> ELSE <<Callback("step", 1)>>

\* The caller awaits env.exec_tool_calls(msg, ordered=ord, handle_tool_exc=h, **kw).
ExecToolCalls(calls, ord, h, kw) ==
    /\ pc = "idle"
    /\ message' = ToolRequestMessage("assistant", "None", "None", calls)
    /\ ordered' = ord
    /\ handle_tool_exc' = h
    /\ function_kwargs' = kw
    /\ task' = [i \in 1..Len(calls) |-> NewTask]
    /\ ready' = InitialReady(Len(calls), ord)
    /\ outer' = IF ~ord /\ Len(calls) = 0
                THEN [NoOuter EXCEPT !.done = TRUE] ELSE NoOuter
    /\ pc' = IF ord /\ Len(calls) = 0 THEN "returned" ELSE "awaiting"
    /\ result' = <<>>
    /\ raisedExc' = NoExc
    /\ ret' = NoRet

\* _exec_tool_call(i) ends with `end` (an ExecEnd) in the task state `t`;
\* `rest` is the ready queue without the callback that is running.  Under
\* gather the task finishes and its done-callback is queued; under ordered the
\* list comprehension goes on to the next call, returns the list or lets the
\* exception out.
Finish(i, t, end, rest) ==
    LET t2 == [t EXCEPT !.st = IF end.ok THEN "done" ELSE "failed",
                        !.exc = end.exc, !.response = end.response]
        task2 == [task EXCEPT ![i] = t2]
    IN /\ task' = task2
       /\ IF ~ordered
          THEN /\ ready' = Append(rest, Callback("done_cb", i))
               /\ UNCHANGED <<pc, result, raisedExc>>
          ELSE IF ~end.ok
          THEN /\ ready' = <<>>
               /\ pc' = "raised"
               /\ raisedExc' = end.exc
               /\ result' = result
          ELSE IF i < NCalls
          THEN /\ ready' = Append(rest, Callback("step", i + 1))
               /\ UNCHANGED <<pc, result, raisedExc>>
          ELSE /\ ready' = rest
               /\ pc' = "returned"
               /\ result' = [j \in 1..NCalls |-> task2[j].response]
               /\ raisedExc' = raisedExc
       /\ UNCHANGED <<message, ordered, handle_tool_exc, function_kwargs, outer, ret>>

\* StepUnknown with the lookup inside the try block: handle_tool_exc turns the
\* ValueError into a response.
StepUnknownInsideTry(i) ==
    /\ pc # "idle" /\ ~LoopBlocked
    /\ ready # <<>> /\ Head(ready) = Callback("step", i)
    /\ task[i].st = "pending"
    /\ FirstTool(Call(i).name) = 0
    /\ Finish(i, task[i],
              IF handle_tool_exc
              THEN [ok |-> TRUE, exc |-> NoExc,
                    response |-> from_call(Call(i), NotValid(Call(i).name).text)]
              ELSE [ok |-> FALSE, exc |-> NotValid(Call(i).name), response |-> NoResponse],
              Tail(ready))

\* First step of _exec_tool_call(i): the tool name is not in self.tools.
StepUnknown(i) ==
    /\ pc # "idle" /\ ~LoopBlocked
    /\ ready # <<>> /\ Head(ready) = Callback("step", i)
    /\ task[i].st = "pending"
    /\ FirstTool(Call(i).name) = 0
    /\ Finish(i, task[i],
              [ok |-> FALSE, exc |-> NotValid(Call(i).name), response |-> NoResponse],
              Tail(ready))

\* First step, is_coroutine_callable true, the call returns a coroutine: the
\* tool's coroutine runs up to its first suspension, or to its end when it
\* never suspends (`suspends`).  A call whose keywords do not bind raises
\* before there is a coroutine.
StepAwaitCoroutine(i, suspends) ==
    /\ pc # "idle" /\ ~LoopBlocked
    /\ ready # <<>> /\ Head(ready) = Callback("step", i)
    /\ task[i].st = "pending"
    /\ FirstTool(Call(i).name) # 0
    /\ is_coroutine_callable(ToolOf(i).fn)
    /\ ReturnsCoroutine(ToolOf(i).fn)
    /\ LET kw == filtered_kwargs(function_kwargs, ToolOf(i))
           out == CallOutcome(ToolOf(i), Call(i).arguments, kw)
           t == [task[i] EXCEPT !.via = "await", !.received = kw]
       IN IF suspends /\ Binds(ToolOf(i), kw)
          THEN /\ task' = [task EXCEPT ![i] = [t EXCEPT !.st = "suspended", !.fn = "running"]]
               /\ ready' = Tail(ready)
               /\ UNCHANGED <<pc, message, ordered, handle_tool_exc, function_kwargs,
                              outer, result, raisedExc, ret>>
          ELSE Finish(i, [t EXCEPT !.fn = IF out.raises = NoExc THEN "returned" ELSE "raised"],
                      ExecEnd(ToolOf(i), Call(i), handle_tool_exc, out), Tail(ready))

\* First step, is_coroutine_callable true, the callable is an ordinary
\* function: `tool._tool_fn(...)` runs its body here, on the event-loop thread.
StepCallInline(i) ==
    /\ pc # "idle" /\ ~LoopBlocked
    /\ ready # <<>> /\ Head(ready) = Callback("step", i)
    /\ task[i].st = "pending"
    /\ FirstTool(Call(i).name) # 0
    /\ is_coroutine_callable(ToolOf(i).fn)
    /\ ~ReturnsCoroutine(ToolOf(i).fn)
    /\ task' = [task EXCEPT ![i] =
                  [@ EXCEPT !.st = "on_loop", !.fn = "running", !.via = "await",
                            !.received = filtered_kwargs(function_kwargs, ToolOf(i))]]
    /\ ready' = Tail(ready)
    /\ UNCHANGED <<pc, message, ordered, handle_tool_exc, function_kwargs,
                   outer, result, raisedExc, ret>>

\* The body that runs on the event-loop thread ends; its return value is
\* awaited.
InlineReturn(i) ==
    /\ pc # "idle"
    /\ i \in 1..NCalls /\ task[i].st = "on_loop"
    /\ LET raw == CallOutcome(ToolOf(i), Call(i).arguments, task[i].received)
           out == InlineOutcome(ToolOf(i), Call(i).arguments, task[i].received)
       IN Finish(i, [task[i] EXCEPT !.fn = IF raw.raises = NoExc THEN "returned" ELSE "raised"],
                 ExecEnd(ToolOf(i), Call(i), handle_tool_exc, out), ready)

\* First step, is_coroutine_callable false: asyncio.to_thread hands the call
\* to a worker thread and the task suspends.
StepToThread(i) ==
    /\ pc # "idle" /\ ~LoopBlocked
    /\ ready # <<>> /\ Head(ready) = Callback("step", i)
    /\ task[i].st = "pending"
    /\ FirstTool(Call(i).name) # 0
    /\ ~is_coroutine_callable(ToolOf(i).fn)
    /\ task' = [task EXCEPT ![i] =
                  [@ EXCEPT !.st = "suspended", !.fn = "running", !.via = "to_thread",
                            !.received = filtered_kwargs(function_kwargs, ToolOf(i))]]
    /\ ready' = Tail(ready)
    /\ UNCHANGED <<pc, message, ordered, handle_tool_exc, function_kwargs,
                   outer, result, raisedExc, ret>>

\* The worker thread finishes the call; the loop is told to wake the task.
ThreadFinish(i) ==
    /\ pc # "idle"
    /\ task[i].st = "suspended" /\ task[i].via = "to_thread"
    /\ LET out == CallOutcome(ToolOf(i), Call(i).arguments, task[i].received)
       IN task' = [task EXCEPT ![i] =
                     [@ EXCEPT !.st = "woken",
                               !.fn = IF out.raises = NoExc THEN "returned" ELSE "raised"]]
    /\ ready' = Append(ready, Callback("wakeup", i))
    /\ UNCHANGED <<pc, message, ordered, handle_tool_exc, function_kwargs,
                   outer, result, raisedExc, ret>>

\* What the tool's coroutine awaits completes; the loop is told to wake the task.
AwaitedDone(i) ==
    /\ pc # "idle"
    /\ task[i].st = "suspended" /\ task[i].via = "await"
    /\ task' = [task EXCEPT ![i] = [@ EXCEPT !.st = "woken"]]
    /\ ready' = Append(ready, Callback("wakeup", i))
    /\ UNCHANGED <<pc, message, ordered, handle_tool_exc, function_kwargs,
                   outer, result, raisedExc, ret>>

\* The loop resumes _exec_tool_call(i): the awaited coroutine runs to its end,
\* or the worker thread's result is delivered.
Wakeup(i) ==
    /\ pc # "idle" /\ ~LoopBlocked
    /\ ready # <<>> /\ Head(ready) = Callback("wakeup", i)
    /\ task[i].st = "woken"
    /\ LET raw == CallOutcome(ToolOf(i), Call(i).arguments, task[i].received)
           out == IF task[i].via = "to_thread"
                  THEN ThreadOutcome(ToolOf(i), Call(i).arguments, task[i].received)
                  ELSE raw
       IN Finish(i, [task[i] EXCEPT !.fn = IF raw.raises = NoExc THEN "returned" ELSE "raised"],
                 ExecEnd(ToolOf(i), Call(i), handle_tool_exc, out), Tail(ready))

\* The list gather hands back: the children's results in the order of its
\* arguments.
GatherResults == [j \in 1..NCalls |-> task[j].response]

\* GatherDoneCallback that, like a TaskGroup, cancels the children still
\* running when the first child fails.
GatherDoneCallbackCancels(i) ==
    /\ pc # "idle" /\ ~LoopBlocked
    /\ ready # <<>> /\ Head(ready) = Callback("done_cb", i)
    /\ IF outer.done
       THEN /\ ready' = Tail(ready)
            /\ UNCHANGED <<outer, task>>
       ELSE IF task[i].st = "failed"
       THEN LET Kept(cb) == cb.cb = "done_cb"
            IN /\ outer' = [outer EXCEPT !.done = TRUE, !.exc = task[i].exc]
               /\ ready' = Append(SelectSeq(Tail(ready), Kept), Callback("caller", 0))
               /\ task' = [j \in 1..NCalls |->
                             IF task[j].st \in {"done", "failed"} THEN task[j]
                             ELSE [task[j] EXCEPT !.st = "cancelled"]]
       ELSE IF outer.nfinished + 1 = NCalls
       THEN /\ outer' = [outer EXCEPT !.done = TRUE, !.nfinished = @ + 1,
                                      !.result = GatherResults]
            /\ ready' = Append(Tail(ready), Callback("caller", 0))
            /\ task' = task
       ELSE /\ outer' = [outer EXCEPT !.nfinished = @ + 1]
            /\ ready' = Tail(ready)
            /\ task' = task
    /\ UNCHANGED <<pc, message, ordered, handle_tool_exc, function_kwargs,
                   result, raisedExc, ret>>

\* gather's done-callback of child i: the first child to fail sets the outer
\* future's exception, the last child to finish sets its result.
GatherDoneCallback(i) ==
    /\ pc # "idle" /\ ~LoopBlocked
    /\ ready # <<>> /\ Head(ready) = Callback("done_cb", i)
    /\ IF outer.done
       THEN /\ ready' = Tail(ready)
            /\ outer' = outer
       ELSE IF task[i].st = "failed"
       THEN /\ outer' = [outer EXCEPT !.done = TRUE, !.exc = task[i].exc]
            /\ ready' = Append(Tail(ready), Callback("caller", 0))
       ELSE IF outer.nfinished + 1 = NCalls
       THEN /\ outer' = [outer EXCEPT !.done = TRUE, !.nfinished = @ + 1,
                                      !.result = GatherResults]
            /\ ready' = Append(Tail(ready), Callback("caller", 0))
       ELSE /\ outer' = [outer EXCEPT !.nfinished = @ + 1]
            /\ ready' = Tail(ready)
    /\ UNCHANGED <<pc, message, ordered, handle_tool_exc, function_kwargs, task,
                   result, raisedExc, ret>>

\* The caller's `await asyncio.gather(...)` resumes with the outer future's
\* result or exception.
CallerResume ==
    /\ pc = "awaiting" /\ ~LoopBlocked
    /\ ready # <<>> /\ Head(ready) = Callback("caller", 0)
    /\ outer.done
    /\ pc' = IF outer.exc # NoExc THEN "raised" ELSE "returned"
    /\ result' = outer.result
    /\ raisedExc' = outer.exc
    /\ ready' = Tail(ready)
    /\ UNCHANGED <<message, ordered, handle_tool_exc, function_kwargs, task, outer, ret>>

\* ------------------------------------------- calls of the plain functions

Roles == {"assistant", "user"}
Contents == {"None", "thinking"}
FunctionCalls == {"None", "legacy_call"}

\* env.filter_invalid_tool_calls(msg)
FilterInvalidToolCalls(msg) ==
    /\ pc = "idle"
    /\ pc' = "returned"
    /\ ret' = [op |-> "filter_invalid_tool_calls", arg |-> msg,
               out |-> filter_invalid_tool_calls(msg)]
    /\ UNCHANGED plainVars

\* is_coroutine_callable(obj)
IsCoroutineCallable(obj) ==
    /\ pc = "idle"
    /\ pc' = "returned"
    /\ ret' = [op |-> "is_coroutine_callable", arg |-> obj,
               out |-> is_coroutine_callable(obj)]
    /\ UNCHANGED plainVars

Next ==
    \/ /\ Idle
       /\ \E calls \in ToolCallLists, ord \in BOOLEAN, h \in BOOLEAN, kw \in AllKwargs :
             ExecToolCalls(calls, ord, h, kw)
       /\ UNCHANGED <<iterVars, registries, dummy>>
    \/ /\ \E i \in 1..NCalls : StepUnknown(i)
       /\ UNCHANGED <<iterVars, registries, dummy>>
    \/ /\ \E i \in 1..NCalls, suspends \in BOOLEAN : StepAwaitCoroutine(i, suspends)
       /\ UNCHANGED <<iterVars, registries, dummy>>
    \/ /\ \E i \in 1..NCalls : StepCallInline(i)
       /\ UNCHANGED <<iterVars, registries, dummy>>
    \/ /\ \E i \in 1..NCalls : InlineReturn(i)
       /\ UNCHANGED <<iterVars, registries, dummy>>
    \/ /\ \E i \in 1..NCalls : StepToThread(i)
       /\ UNCHANGED <<iterVars, registries, dummy>>
    \/ /\ \E i \in 1..NCalls : ThreadFinish(i)
       /\ UNCHANGED <<iterVars, registries, dummy>>
    \/ /\ \E i \in 1..NCalls : AwaitedDone(i)
       /\ UNCHANGED <<iterVars, registries, dummy>>
    \/ /\ \E i \in 1..NCalls : Wakeup(i)
       /\ UNCHANGED <<iterVars, registries, dummy>>
    \/ /\ \E i \in 1..NCalls : GatherDoneCallback(i)
       /\ UNCHANGED <<iterVars, registries, dummy>>
    \/ /\ CallerResume
       /\ UNCHANGED <<iterVars, registries, dummy>>
    \/ /\ Idle
       /\ \E role \in Roles, content \in Contents, fc \in FunctionCalls,
             calls \in ToolCallLists :
             FilterInvalidToolCalls(ToolRequestMessage(role, content, fc, calls))
       /\ UNCHANGED <<iterVars, registries, dummy>>
    \/ /\ Idle
       /\ \E obj \in PyObjects : IsCoroutineCallable(obj)
       /\ UNCHANGED <<iterVars, registries, dummy>>

Spec == Init /\ [][Next]_vars

\* ------------------------------------------------ TaskDataset.iter_batches

\* Largest len(dataset), largest batch_size, and the number of batches of one
\* generator that are followed.
MaxLen == 3
MaxBatchSize == 2
MaxBatches == 4

\* A dataset with __len__ and get_new_env_by_idx (such as GSM8kDataset), or one
\* with neither, only get_new_env (DummyTaskDataset: len() raises TypeError).
Datasets ==
    {[has_len |-> TRUE, len |-> n] : n \in 0..MaxLen} \cup {[has_len |-> FALSE, len |-> 0]}

\* list(range(n))
Range(n) == [i \in 1..n |-> i - 1]

\* The orders random.shuffle can leave list(range(n)) in.
Shuffles(n) ==
    {p \in [1..n -> 0..(n - 1)] : \A i, j \in 1..n : i # j => p[i] # p[j]}

\* s[:k] of a list, k >= 0
SliceTo(s, k) == SubSeq(s, 1, IF k < Len(s) THEN k ELSE Len(s))

\* s[k + 1:], one element too far
SliceFromOffByOne(s, k) == SubSeq(s, k + 2, Len(s))

\* s[k:] of a list, k >= 0
SliceFrom(s, k) == SubSeq(s, k + 1, Len(s))

\* dataset.get_new_env_by_idx(idx): the environment of that index
get_new_env_by_idx(idx) == [of |-> "idx", id |-> idx]

\* get_new_env that hands out one environment again and again.
get_new_env_shared(k) == [of |-> "new", id |-> 1]

\* dataset.get_new_env(): a new environment, the k-th one constructed
get_new_env(k) == [of |-> "new", id |-> k]

\* dataset.iter_batches(batch_size, shuffle): a generator, none of whose code
\* has run yet.
IterBatches(ds, bs, shuf) ==
    /\ gen = "none"
    /\ gen' = "created"
    /\ dataset' = ds
    /\ batch_size' = bs
    /\ shuffle' = shuf
    /\ UNCHANGED <<idcs, by_idx, new_envs, yielded>>
    /\ UNCHANGED <<execVars, registries, dummy>>

\* One pass of `while idcs:` from the list `from`: the generator ends, or
\* yields the environments of the next batch_size indices.
FiniteLoop(from) ==
    IF from = <<>>
    THEN /\ gen' = "finished"
         /\ idcs' = from
         /\ UNCHANGED <<by_idx, yielded>>
    ELSE LET batch_idcs == SliceTo(from, batch_size)
         IN /\ Len(yielded) < MaxBatches
            /\ gen' = "suspended"
            /\ idcs' = SliceFrom(from, batch_size)
            /\ by_idx' = by_idx \o batch_idcs
            /\ yielded' = Append(yielded,
                                 [k \in 1..Len(batch_idcs) |->
                                    get_new_env_by_idx(batch_idcs[k])])

\* The first next() of the generator of a dataset with a length: n = len(self),
\* idcs = list(range(n)), shuffled if asked, then the loop.
NextFirstFinite ==
    /\ gen = "created" /\ dataset.has_len
    /\ \E start \in (IF shuffle THEN Shuffles(dataset.len) ELSE {Range(dataset.len)}) :
          FiniteLoop(start)
    /\ UNCHANGED <<dataset, batch_size, shuffle, new_envs>>
    /\ UNCHANGED <<execVars, registries, dummy>>

\* A later next(): the loop goes on after the yield.
NextFinite ==
    /\ gen = "suspended" /\ dataset.has_len
    /\ FiniteLoop(idcs)
    /\ UNCHANGED <<dataset, batch_size, shuffle, new_envs>>
    /\ UNCHANGED <<execVars, registries, dummy>>

\* next() of the generator of a dataset without a length: len(self) raised
\* TypeError, and `while True` yields batch_size environments, each from a
\* get_new_env call of its own.
NextInfinite ==
    /\ gen \in {"created", "suspended"} /\ ~dataset.has_len
    /\ Len(yielded) < MaxBatches
    /\ gen' = "suspended"
    /\ new_envs' = new_envs + batch_size
    /\ yielded' = Append(yielded, [k \in 1..batch_size |-> get_new_env(new_envs + k)])
    /\ UNCHANGED <<dataset, batch_size, shuffle, idcs, by_idx>>
    /\ UNCHANGED <<execVars, registries, dummy>>

NextBatches ==
    \/ /\ gen = "none"
       /\ \E ds \in Datasets, bs \in 0..MaxBatchSize, shuf \in BOOLEAN :
             IterBatches(ds, bs, shuf)
    \/ NextFirstFinite
    \/ NextFinite
    \/ NextInfinite

SpecBatches == Init /\ [][NextBatches]_vars

\* --------------------------------------------------------- CalculatorEnv

\* Floats are counted in units of 1e-4 (rel_tol's default is 1 unit); the
\* rewards, whose defaults are whole numbers, are counted in ones.
\* CalculatorEnvConfig with its defaults
DefaultConfig ==
    [correct_reward |-> 1, incorrect_reward |-> 0, tool_failure_reward |-> -1,
     tool_success_reward |-> 0, rel_tol |-> 1, done_on_failure |-> TRUE]

\* The configurations followed: the default, and others of rel_tol (0, 1e-4,
\* 1e-2) and done_on_failure.
Configs ==
    {[DefaultConfig EXCEPT !.rel_tol = t, !.done_on_failure = d] :
        t \in {0, 1, 100}, d \in BOOLEAN}

\* CalculatorEnv(problem_id, problem, answer, config), with answer 0.0 or 4.0
CalculatorEnvs == [answer : {0, 40000}, config : Configs]

\* float(s) of the answer strings followed: a finite float (in units), nan,
\* inf, or ValueError.
AnswerStrings == {"4", "4.0", " 4 ", "4.0003", "4.0005", "5", "0", "-4", "nan",
                  "inf", "abc", "", "4,0"}
Float(s) ==
    IF s \in {"4", "4.0", " 4 "} THEN [kind |-> "finite", val |-> 40000]
    ELSE IF s = "4.0003" THEN [kind |-> "finite", val |-> 40003]
    ELSE IF s = "4.0005" THEN [kind |-> "finite", val |-> 40005]
    ELSE IF s = "5" THEN [kind |-> "finite", val |-> 50000]
    ELSE IF s = "0" THEN [kind |-> "finite", val |-> 0]
    ELSE IF s = "-4" THEN [kind |-> "finite", val |-> -40000]
    ELSE IF s = "nan" THEN [kind |-> "nan", val |-> 0]
    ELSE IF s = "inf" THEN [kind |-> "inf", val |-> 0]
    ELSE [kind |-> "ValueError", val |-> 0]

Abs(x) == IF x < 0 THEN -x ELSE x

\* (correct, reward, done) as a Python tuple
Tuple3(a, b, c) == [type |-> "tuple", val |-> <<a, b, c>>]
Bool(b) == [type |-> "bool", val |-> IF b THEN "True" ELSE "False"]

\* abs(float(answer) - self.answer) / (abs(self.answer) + rel_tol) < rel_tol
\* for a finite float(answer) and a divisor that is not 0: x / d < t is
\* x * 1e4 < t * d in units, the divisor being positive.
WithinTolerance(env, x) ==
    Abs(x - env.answer) * 10000 < env.config.rel_tol * (Abs(env.answer) + env.config.rel_tol)

\* CalculatorEnv.check_answer(answer)
check_answer(env, answer) ==
    LET f == Float(answer)
        divisor == Abs(env.answer) + env.config.rel_tol
    IN IF f.kind = "ValueError"
       THEN [raises |-> NoExc,
             returns |-> Tuple3(Bool(FALSE), env.config.tool_failure_reward, TRUE)]
       ELSE IF divisor = 0
       THEN [raises |-> Exc("ZeroDivisionError", "float division by zero"),
             returns |-> None]
       ELSE LET correct == f.kind = "finite" /\ WithinTolerance(env, f.val)
                reward == IF correct THEN env.config.correct_reward
                          ELSE env.config.incorrect_reward
            IN [raises |-> NoExc, returns |-> Tuple3(Bool(correct), reward, TRUE)]

\* env.check_answer(answer)
CheckAnswer(env, answer) ==
    /\ pc = "idle"
    /\ pc' = IF check_answer(env, answer).raises = NoExc THEN "returned" ELSE "raised"
    /\ ret' = [op |-> "check_answer", env |-> env, arg |-> answer,
               out |-> check_answer(env, answer)]
    /\ UNCHANGED plainVars
    /\ UNCHANGED <<iterVars, registries, dummy>>

\* The expressions followed, and CalculatorEnv.calculator(expr): eval's result
\* with tool_success_reward, or the error text when eval raised.
Expressions == {"2+2", "1/0"}
calculator(env, expr) ==
    IF expr = "2+2"
    THEN [raises |-> NoExc,
          returns |-> Tuple3(Int_("4"), env.config.tool_success_reward, FALSE)]
    ELSE [raises |-> NoExc,
          returns |-> Tuple3(Str("Error using calculator"),
                             env.config.tool_failure_reward,
                             env.config.done_on_failure)]

\* self.tools of a CalculatorEnv: both are bound methods of the environment.
calc_tools(env) == <<
    [name |-> "calculator", fn |-> SyncMethod, sig_params |-> {"expr"},
     requires_state |-> FALSE, accepts |-> {}, required |-> {},
     body |-> [a \in Expressions |-> calculator(env, a)]],
    [name |-> "check_answer", fn |-> SyncMethod, sig_params |-> {"answer"},
     requires_state |-> FALSE, accepts |-> {}, required |-> {},
     body |-> [a \in AnswerStrings |-> check_answer(env, a)]]
>>

CalcToolNames == {"calculator", "check_answer"}
CalcToolOf(env, name) ==
    IF name = "calculator" THEN calc_tools(env)[1] ELSE calc_tools(env)[2]

\* The tool calls of an action given to a CalculatorEnv.
CalcToolCalls ==
    [id : CallIds, name : {"calculator"}, arguments : Expressions]
    \cup [id : CallIds, name : {"check_answer"}, arguments : {"4", "5", "abc"}]
    \cup [id : CallIds, name : UnknownNames, arguments : {"x=1"}]

CalcToolCallLists ==
    UNION {{c \in [1..n -> CalcToolCalls] :
              \A i, j \in 1..n : i # j => c[i].id # c[j].id} : n \in 0..MaxCalls}

RECURSIVE CalcSelect(_, _)
\* filter_invalid_tool_calls on a CalculatorEnv: the calls whose name is (known)
\* or is not a tool of the environment, in list order.
CalcSelect(calls, known) ==
    IF calls = <<>> THEN <<>>
    ELSE LET c == Head(calls)
             rest == CalcSelect(Tail(calls), known)
         IN IF (c.name \in CalcToolNames) = known THEN <<c>> \o rest ELSE rest

\* repr of a float that is a whole number
FloatRepr(r) == ToString(r) \o ".0"

\* json.dumps of a (response, reward, done) tuple: a JSON array
json_dumps_tuple(t) ==
    "[" \o (IF t.val[1].type = "bool"
            THEN (IF t.val[1] = Bool(TRUE) THEN "true" ELSE "false")
            ELSE json_dumps(t.val[1]))
    \o ", " \o FloatRepr(t.val[2])
    \o ", " \o (IF t.val[3] THEN "true" ELSE "false") \o "]"

\* The tuples a tool of the environment can return.
CalcTuples(env) ==
    UNION {{calc_tools(env)[k].body[a].returns : a \in DOMAIN calc_tools(env)[k].body} :
           k \in 1..2} \ {None}

\* json.loads of the text json.dumps made of one of those tuples
json_loads(env, text) ==
    (CHOOSE t \in CalcTuples(env) : json_dumps_tuple(t) = text).val

\* str(response)
StrOf(v) == v.val

\* How the run of _exec_tool_call(tool_call) ends under exec_tool_calls'
\* defaults (no function_kwargs, handle_tool_exc=False) for a tool of the
\* environment, whose function never suspends.
CalcExecEnd(env, tool_call) ==
    LET tool == CalcToolOf(env, tool_call.name)
        out == IF is_coroutine_callable(tool.fn)
               THEN InlineOutcome(tool, tool_call.arguments, <<>>)
               ELSE ThreadOutcome(tool, tool_call.arguments, <<>>)
    IN IF out.raises # NoExc
       THEN [ok |-> FALSE, exc |-> out.raises, response |-> NoResponse]
       ELSE [ok |-> TRUE, exc |-> NoExc,
             response |-> from_call(tool_call, json_dumps_tuple(out.returns))]

\* await self.exec_tool_calls(valid_action): the responses in call order, or
\* the exception of the first run that failed (the runs begin in call order).
CalcExecToolCalls(env, calls) ==
    LET ends == [i \in 1..Len(calls) |-> CalcExecEnd(env, calls[i])]
        failed == {i \in 1..Len(calls) : ~ends[i].ok}
    IN IF failed # {}
       THEN [raises |-> ends[CHOOSE i \in failed : \A j \in failed : i <= j].exc,
             results |-> <<>>]
       ELSE [raises |-> NoExc, results |-> [i \in 1..Len(calls) |-> ends[i].response]]

RECURSIVE SumRewards(_, _)
\* total_reward after the loop over the results
SumRewards(env, results) ==
    IF results = <<>> THEN 0
    ELSE json_loads(env, Head(results).content)[2] + SumRewards(env, Tail(results))

\* Message(content=...), of the default role
Message(content) == [role |-> "user", content |-> content]

\* CalculatorEnv.step(action), by action.tool_calls
step(env, calls) ==
    IF calls = <<>>
    THEN [raises |-> NoExc,
          msgs |-> <<Message("Must call one of the provided tools (calculator or check_answer).")>>,
          reward |-> env.config.tool_failure_reward,
          done |-> env.config.done_on_failure, truncated |-> FALSE]
    ELSE LET valid == CalcSelect(calls, TRUE)
             invalid == CalcSelect(calls, FALSE)
             invalid_response_msgs == [i \in 1..Len(invalid) |-> from_call(invalid[i], "")]
         IN IF valid # <<>>
            THEN LET exec == CalcExecToolCalls(env, valid)
                     response_msgs ==
                         [i \in 1..Len(exec.results) |->
                            from_call(valid[i],
                                      StrOf(json_loads(env, exec.results[i].content)[1]))]
                 IN IF exec.raises # NoExc
                    THEN [raises |-> exec.raises, msgs |-> <<>>, reward |-> 0,
                          done |-> FALSE, truncated |-> FALSE]
                    ELSE [raises |-> NoExc,
                          msgs |-> response_msgs \o invalid_response_msgs,
                          reward |-> SumRewards(env, exec.results),
                          done |-> \E i \in 1..Len(exec.results) :
                                      json_loads(env, exec.results[i].content)[3],
                          truncated |-> FALSE]
            ELSE [raises |-> NoExc, msgs |-> invalid_response_msgs,
                  reward |-> env.config.tool_failure_reward * Len(invalid_response_msgs),
                  done |-> env.config.done_on_failure, truncated |-> FALSE]

\* await env.step(action)
Step(env, calls) ==
    /\ pc = "idle"
    /\ pc' = IF step(env, calls).raises = NoExc THEN "returned" ELSE "raised"
    /\ ret' = [op |-> "step", env |-> env, arg |-> calls, out |-> step(env, calls)]
    /\ UNCHANGED plainVars
    /\ UNCHANGED <<iterVars, registries, dummy>>

NextCalculator ==
    \/ /\ Idle
       /\ \E env \in CalculatorEnvs, answer \in AnswerStrings : CheckAnswer(env, answer)
    \/ /\ Idle
       /\ \E env \in CalculatorEnvs, calls \in CalcToolCallLists : Step(env, calls)

SpecCalculator == Init /\ [][NextCalculator]_vars

\* ---------------------------------------------------------- GSM8kDataset

\* Largest number of rows of the loaded Hugging Face split.
MaxRows == 11

\* GSM8kDataset.Split
Splits == {"train_full", "train", "val", "test"}

RECURSIVE SelectRows(_, _)
\* src_df[src_df.index % 5 == 0] (zero TRUE) or src_df[src_df.index % 5 != 0]
\* (zero FALSE): the rows the mask keeps, in their order.
SelectRows(df, zero) ==
    IF df = <<>> THEN <<>>
    ELSE IF (Head(df).index % 5 = 0) = zero
    THEN <<Head(df)>> \o SelectRows(Tail(df), zero)
    ELSE SelectRows(Tail(df), zero)

\* _get_df_from_hf: the n rows of the loaded split ("test" for test, "train"
\* for the others) with the index 0..n-1 of reset_index(drop=True), of which
\* train keeps index % 5 != 0 and val keeps index % 5 == 0.
get_df_from_hf(split, n) ==
    LET hf_split == IF split = "test" THEN "test" ELSE "train"
        loaded == [i \in 1..n |-> [index |-> i - 1, hf_split |-> hf_split]]
    IN IF split = "train" THEN SelectRows(loaded, FALSE)
       ELSE IF split = "val" THEN SelectRows(loaded, TRUE)
       ELSE loaded

\* GSM8kDataset(split): src_df with its problem_id column
GSM8kDataset(split, n) ==
    LET df == get_df_from_hf(split, n)
    IN [split |-> split,
        src_df |-> [k \in 1..Len(df) |->
                      [index |-> df[k].index, hf_split |-> df[k].hf_split,
                       problem_id |-> split \o "_" \o ToString(df[k].index)]]]

\* src_df.loc[idx]: the row labelled idx, if there is one
loc(df, idx) ==
    IF \E k \in 1..Len(df) : df[k].index = idx
    THEN df[CHOOSE k \in 1..Len(df) : df[k].index = idx]
    ELSE [index |-> -1, hf_split |-> "", problem_id |-> "KeyError"]

\* src_df.iloc[idx], 0 <= idx < len(src_df): the row at that position
iloc(df, idx) == df[idx + 1]

\* GSM8kDataset.__len__
len(ds) == Len(ds.src_df)

\* GSM8kDataset.get_new_env_by_idx(idx): the CalculatorEnv of the row
gsm8k_get_new_env_by_idx(ds, idx) ==
    LET row == iloc(ds.src_df, idx)
    IN [problem_id |-> row.problem_id, row |-> row.index, hf_split |-> row.hf_split]

\* GSM8kDataset(split).get_new_env_by_idx(idx) on a source of n rows
GetNewEnvByIdx(split, n, idx) ==
    /\ pc = "idle"
    /\ pc' = "returned"
    /\ ret' = [op |-> "get_new_env_by_idx", ds |-> GSM8kDataset(split, n), n |-> n,
               arg |-> idx, out |-> gsm8k_get_new_env_by_idx(GSM8kDataset(split, n), idx)]
    /\ UNCHANGED plainVars
    /\ UNCHANGED <<iterVars, registries, dummy>>

NextGsm8k ==
    /\ Idle
    /\ \E split \in Splits, n \in 0..MaxRows :
          \E idx \in 0..(len(GSM8kDataset(split, n)) - 1) : GetNewEnvByIdx(split, n, idx)

SpecGsm8k == Init /\ [][NextGsm8k]_vars

\* --------------------------------------------------------- partial_format

\* Longest string, in pieces.
MaxPieces == 3

\* A string as str.format reads it, piece by piece: literal text, a
\* replacement field "{key}", or a field in doubled braces "{{key}}".
Lit(text) == [t |-> "lit", s |-> text]
Field(key) == [t |-> "field", s |-> key]
Escaped(key) == [t |-> "escaped", s |-> key]

FormatKeys == {"a", "b"}
Pieces == {Lit("and")} \cup {Field(k) : k \in FormatKeys} \cup {Escaped(k) : k \in FormatKeys}
Strings == UNION {[1..n -> Pieces] : n \in 0..MaxPieces}

\* **formats: the keywords in the order given, each with its value.
Formats ==
    {<<>>, <<[key |-> "a", val |-> "1"]>>, <<[key |-> "b", val |-> "2"]>>,
     <<[key |-> "a", val |-> "1"], [key |-> "b", val |-> "2"]>>,
     <<[key |-> "b", val |-> "2"], [key |-> "a", val |-> "1"]>>}

\* value.format(**{key: val}): KeyError when the string has a field of
\* another key; else every field is replaced by the value and every pair of
\* doubled braces becomes single, which leaves the text of a field.
str_format(value, key, val) ==
    IF \E i \in 1..Len(value) : value[i].t = "field" /\ value[i].s # key
    THEN [raises |-> Exc("KeyError", "missing key"), value |-> value]
    ELSE [raises |-> NoExc,
          value |-> [i \in 1..Len(value) |->
                       IF value[i].t = "field" THEN Lit(val)
                       ELSE IF value[i].t = "escaped" THEN Field(value[i].s)
                       ELSE value[i]]]

RECURSIVE partial_format(_, _)
\* utils.partial_format(value, **formats)
partial_format(value, formats) ==
    IF formats = <<>> THEN value
    ELSE LET r == str_format(value, Head(formats).key, Head(formats).val)
         IN partial_format(IF r.raises = NoExc THEN r.value ELSE value, Tail(formats))

\* partial_format(value, **formats)
PartialFormat(value, formats) ==
    /\ pc = "idle"
    /\ pc' = "returned"
    /\ ret' = [op |-> "partial_format", arg |-> value, formats |-> formats,
               out |-> partial_format(value, formats)]
    /\ UNCHANGED plainVars
    /\ UNCHANGED <<iterVars, registries, dummy>>

NextFormat ==
    /\ Idle
    /\ \E value \in Strings, formats \in Formats : PartialFormat(value, formats)

SpecFormat == Init /\ [][NextFormat]_vars

\* --------------------------------------------------------------- from_name

\* The names asked for, the keyword arguments given, and the modules of the
\* registries; aviary.env is the module of the registries itself, the others
\* are separately installed packages.
Names == {"dummy", "calculator", "gsm8k", "hotpotqa", "no_such_env"}
Kwargs == {<<>>, [split |-> "train"], [split |-> "val"],
           [task |-> "story", end_immediately |-> "False"]}
OptionalModules == {"aviary.gsm8k.env", "aviary.hotpotqa.env"}

\* getattr(module, cls_name)(**kwargs): the new instance
Construct(module_name, cls_name, kwargs) ==
    [module |-> module_name, cls |-> cls_name, kwargs |-> kwargs]

\* _construct_obj_from_name that constructs the class without the kwargs.
construct_obj_from_name_no_kwargs(registry, name, kwargs, installed) ==
    IF name \notin DOMAIN registry
    THEN [raises |-> Exc("ValueError", "Unknown environment name: " \o name),
          returns |-> None]
    ELSE IF registry[name][1] \in OptionalModules \ installed
    THEN [raises |-> Exc("ImportError", "Could not import env from " \o registry[name][1]
                                        \o "; you need to install it."),
          returns |-> None]
    ELSE [raises |-> NoExc, returns |-> Construct(registry[name][1], registry[name][2], <<>>)]

\* _construct_obj_from_name(registry, name, **kwargs), where `installed` are
\* the optional modules that importlib can import.
construct_obj_from_name(registry, name, kwargs, installed) ==
    IF name \notin DOMAIN registry
    THEN [raises |-> Exc("ValueError", "Unknown environment name: " \o name),
          returns |-> None]
    ELSE LET module_name == registry[name][1]
             cls_name == registry[name][2]
         IN IF module_name \in OptionalModules \ installed
            THEN [raises |-> Exc("ImportError", "Could not import env from " \o module_name
                                                \o "; you need to install it."),
                  returns |-> None]
            ELSE [raises |-> NoExc, returns |-> Construct(module_name, cls_name, kwargs)]

\* Environment.from_name(name, **env_kwargs) (kind "env") and
\* TaskDataset.from_name(name, **env_kwargs) (kind "task")
FromName(kind, name, kwargs, installed) ==
    LET out == construct_obj_from_name(registries[kind], name, kwargs, installed)
    IN /\ pc = "idle"
       /\ pc' = IF out.raises = NoExc THEN "returned" ELSE "raised"
       /\ ret' = [op |-> "from_name", kind |-> kind, arg |-> name, kwargs |-> kwargs,
                  installed |-> installed, out |-> out]
       /\ UNCHANGED plainVars
       /\ UNCHANGED <<iterVars, registries, dummy>>

NextRegistry ==
    /\ Idle
    /\ \E kind \in {"env", "task"}, name \in Names, kwargs \in Kwargs,
          installed \in SUBSET OptionalModules :
          FromName(kind, name, kwargs, installed)

SpecRegistry == Init /\ [][NextRegistry]_vars

\* ------------------------------------------------------------- DummyEnv

\* The step() calls of one environment that are followed.
MaxSteps == 2

\* self.tools after reset(): three local defs.  print_story takes the state
\* and returns None; cast_float and cast_int do not take it.
dummy_tools == <<
    [name |-> "print_story", fn |-> SyncDef, sig_params |-> {"story", "state"},
     requires_state |-> FALSE, accepts |-> {"state"}, required |-> {"state"},
     body |-> [a \in {"story=s"} |-> [raises |-> NoExc, returns |-> None]]],
    [name |-> "cast_float", fn |-> SyncDef, sig_params |-> {"x"},
     requires_state |-> FALSE, accepts |-> {}, required |-> {},
     body |-> [a \in {"x=1.5", "x=abc"} |->
                 IF a = "x=1.5"
                 THEN [raises |-> NoExc, returns |-> [type |-> "float", val |-> "1.5"]]
                 ELSE [raises |-> Exc("ValueError", "could not convert string to float: 'abc'"),
                       returns |-> None]]],
    [name |-> "cast_int", fn |-> SyncDef, sig_params |-> {"x"},
     requires_state |-> FALSE, accepts |-> {}, required |-> {},
     body |-> [a \in {"x=1.5"} |-> [raises |-> NoExc, returns |-> Int_("1")]]]
>>

DummyToolNames == {dummy_tools[k].name : k \in 1..Len(dummy_tools)}
DummyToolOf(name) == dummy_tools[CHOOSE k \in 1..Len(dummy_tools) : dummy_tools[k].name = name]

\* What a tool call of an action can name and carry.
DummyCallKinds ==
    UNION {[name : {dummy_tools[k].name}, arguments : DOMAIN dummy_tools[k].body] :
           k \in 1..Len(dummy_tools)}
    \cup [name : UnknownNames, arguments : {"x=1"}]

\* The tool_calls of an action: the call at position i has an id of its own.
DummyToolCallLists ==
    UNION {{[i \in 1..n |-> [id |-> "call_" \o ToString(i), name |-> kinds[i].name,
                             arguments |-> kinds[i].arguments]] :
              kinds \in [1..n -> DummyCallKinds]} : n \in 0..MaxCalls}

\* The run of _exec_tool_call(tool_call) under step's call
\* exec_tool_calls(action, state=self.state): how it ends, and whether the
\* body of print_story ran (prints), which sets state.reward and state.done.
DummyExecEnd(tool_call) ==
    IF tool_call.name \notin DummyToolNames
    THEN [ok |-> FALSE, exc |-> NotValid(tool_call.name), response |-> NoResponse,
          prints |-> FALSE, unknown |-> TRUE]
    ELSE LET tool == DummyToolOf(tool_call.name)
             kw == filtered_kwargs([k \in {"state"} |-> "STATE"], tool)
             raw == CallOutcome(tool, tool_call.arguments, kw)
             out == IF is_coroutine_callable(tool.fn)
                    THEN InlineOutcome(tool, tool_call.arguments, kw)
                    ELSE ThreadOutcome(tool, tool_call.arguments, kw)
             prints == tool.name = "print_story" /\ Binds(tool, kw)
         IN IF out.raises # NoExc
            THEN [ok |-> FALSE, exc |-> out.raises, response |-> NoResponse,
                  prints |-> prints, unknown |-> FALSE]
            ELSE [ok |-> TRUE, exc |-> NoExc,
                  response |-> from_call(tool_call, s_content(tool, NoExc, out.returns)),
                  prints |-> prints, unknown |-> FALSE]

\* What `await self.exec_tool_calls(action, state=self.state)` can have done
\* when step goes on: the list of responses, or the exception of the first run
\* to fail; and `printed`, whether print_story has run by then.  Functions
\* that are awaited run on the loop, in call order, before the caller is woken;
\* functions on worker threads may or may not have run when a failure wakes it.
DummyExecOutcomes(calls) ==
    LET ends == [i \in 1..Len(calls) |-> DummyExecEnd(calls[i])]
        failed == {i \in 1..Len(calls) : ~ends[i].ok}
        unknown == {i \in failed : ends[i].unknown}
        printers == {i \in 1..Len(calls) : ends[i].prints}
        First(S) == CHOOSE i \in S : \A j \in S : i <= j
    IN IF failed = {}
       THEN {[raises |-> NoExc, msgs |-> [i \in 1..Len(calls) |-> ends[i].response],
              printed |-> printers # {}]}
       ELSE IF is_coroutine_callable(SyncDef)
       THEN {[raises |-> ends[First(failed)].exc, msgs |-> <<>>, printed |-> printers # {}]}
       ELSE {[raises |-> ends[i].exc, msgs |-> <<>>, printed |-> p] :
               i \in (IF unknown # {} THEN {First(unknown)} ELSE failed),
               p \in {b \in BOOLEAN : b => printers # {}}}

\* DummyEnv(end_immediately)
NewDummyEnv(e) ==
    /\ ~dummy.made
    /\ dummy' = [NoDummyEnv EXCEPT !.made = TRUE, !.end_immediately = e]
    /\ ret' = [op |-> "DummyEnv"]
    /\ UNCHANGED <<pc, plainVars, iterVars, registries>>

\* await env.reset()
Reset ==
    /\ dummy.made
    /\ dummy' = [dummy EXCEPT
                   !.is_reset = TRUE, !.printed = FALSE,
                   !.state = DummyEnvState(<<Message("Write a 5 word story via print_story")>>)]
    /\ ret' = [op |-> "reset"]
    /\ UNCHANGED <<pc, plainVars, iterVars, registries>>

\* await env.step(action), after a reset
DummyStep(calls) ==
    /\ dummy.made /\ dummy.is_reset
    /\ dummy.steps < MaxSteps
    /\ \E o \in DummyExecOutcomes(calls) :
          LET state1 == IF o.printed
                        THEN [dummy.state EXCEPT !.reward = 1, !.done = dummy.end_immediately]
                        ELSE dummy.state
              state2 == IF o.raises = NoExc
                        THEN [state1 EXCEPT !.messages = @ \o o.msgs]
                        ELSE state1
          IN /\ dummy' = [dummy EXCEPT !.state = state2, !.steps = @ + 1,
                                       !.printed = @ \/ o.printed]
             /\ ret' = [op |-> "dummy_step", arg |-> calls, before |-> dummy.state,
                        ran_print_story |-> o.printed,
                        out |-> IF o.raises # NoExc
                                THEN [raises |-> o.raises, msgs |-> <<>>, reward |-> 0,
                                      done |-> FALSE, truncated |-> FALSE]
                                ELSE [raises |-> NoExc, msgs |-> o.msgs,
                                      reward |-> state2.reward, done |-> state2.done,
                                      truncated |-> FALSE]]
    /\ UNCHANGED <<pc, plainVars, iterVars, registries>>

NextDummy ==
    \/ \E e \in BOOLEAN : NewDummyEnv(e)
    \/ Reset
    \/ /\ dummy.is_reset
       /\ \E calls \in DummyToolCallLists : DummyStep(calls)

SpecDummy == Init /\ [][NextDummy]_vars

\* ----------------------------------------------------------- properties

\* exec_tool_calls has been called (and not a plain function).
ExecActive == pc # "idle" /\ ret = NoRet

\* exec_tool_calls has returned or raised.
ExecOver == ExecActive /\ pc \in {"returned", "raised"}

Registered(i) == Call(i).name \in ToolNames
AllRegistered == \A i \in 1..NCalls : Registered(i)

\* The response at position i is paired to the tool call at position i.
Paired(i) ==
    /\ result[i].tool_call_id = Call(i).id
    /\ result[i].name = Call(i).name

\* What the tool function of call i does with the keywords it received.
BodyOf(i) == CallOutcome(ToolOf(i), Call(i).arguments, task[i].received)

\* C1: when every tool call names a registered tool and every tool function
\* returns normally, exec_tool_calls returns one response per tool call, the
\* response at position i carrying the id and tool name of call i, for both
\* values of ordered and any order of completion.
C1_OneResponsePerCall ==
    (/\ ExecOver
     /\ AllRegistered
     /\ \A i \in 1..NCalls : task[i].fn = "returned")
    => /\ pc = "returned"
       /\ Len(result) = NCalls
       /\ \A i \in 1..NCalls : Paired(i)

C3_OrderedIsSequential ==
    (ExecActive /\ ordered)
    => \A k \in 1..(NCalls - 1) :
          (task[k + 1].st # "pending" \/ task[k + 1].fn # "not_called")
          => /\ task[k].st = "done"
             /\ task[k].response # NoResponse

\* Under ordered=True the second call's function is running after the first
\* call, whose coroutine had suspended, has its response.
C3_Witness ==
    /\ ExecActive /\ ordered /\ NCalls = 2
    /\ Call(1).name = "async_add" /\ task[1].st = "done"
    /\ task[2].fn = "running"

\* C4: with ordered=False the tool calls are made concurrently, for coroutine
\* and for synchronous tool functions: while the function of an earlier call is
\* in progress and the first step of a later call is next on the event loop,
\* that step can be taken, so the later function starts before the earlier one
\* has finished.
C4_CallsAreConcurrent ==
    \A i, j \in 1..NCalls :
       (/\ ExecActive /\ ~ordered /\ i < j
        /\ task[i].fn = "running"
        /\ ready # <<>> /\ Head(ready) = Callback("step", j)
        /\ Registered(j))
       => ENABLED (\/ StepAwaitCoroutine(j, TRUE)
                   \/ StepAwaitCoroutine(j, FALSE)
                   \/ StepCallInline(j)
                   \/ StepToThread(j))

\* C5: with handle_tool_exc=True and registered tools, when a tool function
\* has raised an Exception, exec_tool_calls still returns one paired response
\* per call; the response of a call whose function raised
\* has the content 'Failed to execute tool call for tool <name>:\n<text>' and
\* the response of every other call has its normal result.
C5_ExceptionsSuppressed ==
    (/\ ExecOver /\ handle_tool_exc /\ AllRegistered
     /\ \E i \in 1..NCalls : task[i].fn = "raised")
    => /\ pc = "returned"
       /\ Len(result) = NCalls
       /\ \A i \in 1..NCalls :
             /\ Paired(i)
             /\ task[i].fn = "raised" =>
                  result[i].content =
                     "Failed to execute tool call for tool " \o Call(i).name
                        \o ":\n" \o BodyOf(i).raises.text
             /\ task[i].fn = "returned" =>
                  result[i].content = s_content(ToolOf(i), NoExc, BodyOf(i).returns)

\* C6: with handle_tool_exc=False, an Exception raised by a tool's function
\* propagates to the caller of exec_tool_calls unchanged and no list is
\* returned: when the tools are registered and one tool function of the
\* message has raised, exec_tool_calls raises that function's exception.
C6_ExceptionPropagates ==
    \A i \in 1..NCalls :
       (/\ ExecOver /\ ~handle_tool_exc /\ AllRegistered
        /\ task[i].fn = "raised"
        /\ \A j \in 1..NCalls : task[j].fn = "raised" => j = i)
       => /\ pc = "raised"
          /\ result = <<>>
          /\ raisedExc = BodyOf(i).raises

\* C7: a tool call for a registered tool whose function is an ordinary def
\* that returns a string does not raise, and its response's content is the
\* string the function returned for the call's arguments.
C7_SyncStringTool ==
    \A i \in 1..NCalls :
       (/\ ExecActive /\ Registered(i)
        /\ ToolOf(i).fn = SyncDef
        /\ task[i].fn = "returned"
        /\ task[i].st \in {"done", "failed"}
        /\ BodyOf(i).returns.type = "str")
       => /\ task[i].st = "done"
          /\ task[i].response.content = BodyOf(i).returns.val

\* The kinds of object that are coroutine functions, coroutine methods or
\* objects whose __call__ is a coroutine function.
CoroutineKinds == {"async_def", "async_method", "async_callable_obj"}

\* C8: is_coroutine_callable is true exactly of coroutine functions, coroutine
\* methods and objects whose __call__ is a coroutine function, so that
\* exec_tool_calls awaits coroutine tools and runs the others on a thread.
C8_IsCoroutineCallable ==
    /\ ret.op = "is_coroutine_callable" =>
          (ret.out <=> ret.arg.kind \in CoroutineKinds)
    /\ ExecActive =>
          \A i \in 1..NCalls :
             task[i].via # "none" =>
                /\ task[i].via = "await" <=> ToolOf(i).fn.kind \in CoroutineKinds
                /\ task[i].via = "to_thread" <=> ToolOf(i).fn.kind \notin CoroutineKinds

\* The position of a call (by its id) in a list of calls, 0 when absent.
PosIn(calls, c) ==
    IF \E p \in 1..Len(calls) : calls[p] = c
    THEN CHOOSE p \in 1..Len(calls) : calls[p] = c
    ELSE 0

\* C9: filter_invalid_tool_calls partitions the tool calls: each call of the
\* input is in exactly one of the two messages, in the first one exactly when
\* its name is a tool's name, in the input's relative order within each
\* message, and both messages keep the input's role, content and
\* function_call.
C9_FilterPartitions ==
    ret.op = "filter_invalid_tool_calls" =>
       LET m == ret.arg
           valid == ret.out[1]
           invalid == ret.out[2]
           Occurs(calls, c) == Cardinality({p \in 1..Len(calls) : calls[p] = c})
           InOrder(calls) ==
              \A p, q \in 1..Len(calls) :
                 p < q => /\ PosIn(m.tool_calls, calls[p]) # 0
                          /\ PosIn(m.tool_calls, calls[p]) < PosIn(m.tool_calls, calls[q])
       IN /\ \A p \in 1..Len(m.tool_calls) :
                LET c == m.tool_calls[p]
                IN /\ Occurs(valid.tool_calls, c) + Occurs(invalid.tool_calls, c) = 1
                   /\ Occurs(valid.tool_calls, c) = 1 <=> c.name \in ToolNames
          /\ Len(valid.tool_calls) + Len(invalid.tool_calls) = Len(m.tool_calls)
          /\ InOrder(valid.tool_calls) /\ InOrder(invalid.tool_calls)
          /\ \A x \in {valid, invalid} :
                /\ x.role = m.role
                /\ x.content = m.content
                /\ x.function_call = m.function_call

\* A two-call message of a user, an unknown call before a known one, was split
\* into one valid and one invalid call.
C9_Witness ==
    /\ ret.op = "filter_invalid_tool_calls"
    /\ ret.arg.role = "user" /\ ret.arg.content = "thinking"
    /\ Len(ret.arg.tool_calls) = 2
    /\ ret.arg.tool_calls[1].name = "no_such_tool"
    /\ ret.out[1].tool_calls = <<ret.arg.tool_calls[2]>>
    /\ ret.out[2].tool_calls = <<ret.arg.tool_calls[1]>>

\* C10: a tool function is called with the state keyword exactly when state
\* was given to exec_tool_calls and the function's signature has a parameter
\* named state or the function has a requires_state attribute; every other
\* keyword reaches every tool function, and every keyword that is passed has
\* the value it was given.
C10_StateKeyword ==
    ExecActive =>
       \A i \in 1..NCalls :
          task[i].via # "none" =>
             LET r == task[i].received
                 t == ToolOf(i)
             IN /\ "state" \in DOMAIN r <=>
                      /\ "state" \in DOMAIN function_kwargs
                      /\ ("state" \in t.sig_params \/ t.requires_state)
                /\ (DOMAIN function_kwargs) \ {"state"} \subseteq DOMAIN r
                /\ DOMAIN r \subseteq DOMAIN function_kwargs
                /\ \A k \in DOMAIN r : r[k] = function_kwargs[k]

\* Of one message given state and another keyword, one function was called
\* with the state (it has requires_state) and one without.
C10_Witness ==
    /\ ExecActive /\ NCalls = 2
    /\ DOMAIN function_kwargs = {"state", "extra"}
    /\ Call(1).name = "async_add" /\ Call(2).name = "partial_tool"
    /\ task[1].via # "none" /\ task[2].via # "none"
    /\ DOMAIN task[1].received = {"state", "extra"}
    /\ DOMAIN task[2].received = {"extra"}

\* ---------------------------------------------------------- iter_batches

RECURSIVE Flatten(_)
\* The environments of the batches, in the order they were yielded.
Flatten(bs) == IF bs = <<>> THEN <<>> ELSE Head(bs) \o Flatten(Tail(bs))

\* The generator of a dataset with a length and a batch_size >= 1.
FiniteGen == gen # "none" /\ dataset.has_len /\ batch_size >= 1

\* C11: for a dataset of length n and batch_size >= 1, no index is requested
\* twice and no index outside 0..n-1, the batches are the environments of the
\* requested indices in request order, every batch but the last has batch_size
\* environments and the last has between 1 and batch_size, without shuffle the
\* requests are 0, 1, 2, ... ; and when the generator has finished every index
\* 0..n-1 has been requested and the last batch has n % batch_size
\* environments when that is not 0.
C11_FiniteBatches ==
    FiniteGen =>
        /\ \A i, j \in 1..Len(by_idx) : i # j => by_idx[i] # by_idx[j]
        /\ \A i \in 1..Len(by_idx) : by_idx[i] \in 0..(dataset.len - 1)
        /\ Flatten(yielded) = [i \in 1..Len(by_idx) |-> [of |-> "idx", id |-> by_idx[i]]]
        /\ \A b \in 1..Len(yielded) :
              /\ Len(yielded[b]) >= 1
              /\ Len(yielded[b]) <= batch_size
              /\ b < Len(yielded) => Len(yielded[b]) = batch_size
        /\ ~shuffle => \A i \in 1..Len(by_idx) : by_idx[i] = i - 1
        /\ new_envs = 0
        /\ gen = "finished" =>
              /\ {by_idx[i] : i \in 1..Len(by_idx)} = 0..(dataset.len - 1)
              /\ Len(by_idx) = dataset.len
              /\ dataset.len % batch_size # 0 =>
                    Len(yielded[Len(yielded)]) = dataset.len % batch_size
              /\ dataset.len % batch_size = 0 /\ dataset.len > 0 =>
                    Len(yielded[Len(yielded)]) = batch_size

\* A shuffled dataset of 3 has been iterated to its end in batches of 2, the
\* indices not in increasing order.
C11_Witness ==
    /\ FiniteGen /\ gen = "finished" /\ shuffle
    /\ dataset.len = 3 /\ batch_size = 2
    /\ Len(yielded) = 2 /\ Len(yielded[2]) = 1
    /\ by_idx[1] > by_idx[2]

\* The generator of a dataset whose len() raises TypeError.
InfiniteGen == gen # "none" /\ ~dataset.has_len

\* C12: the generator of a dataset without a length never finishes and can
\* always yield one more batch (as far as the model follows it), never calls
\* get_new_env_by_idx, and every batch it yields has batch_size environments,
\* the k-th environment overall being the result of the k-th get_new_env call.
C12_InfiniteBatches ==
    InfiniteGen =>
        /\ gen # "finished"
        /\ Len(yielded) < MaxBatches => ENABLED NextInfinite
        /\ by_idx = <<>>
        /\ \A b \in 1..Len(yielded) : Len(yielded[b]) = batch_size
        /\ new_envs = batch_size * Len(yielded)
        /\ Flatten(yielded) = [k \in 1..new_envs |-> [of |-> "new", id |-> k]]

\* Three batches of 2 have been yielded from 6 get_new_env calls.
C12_Witness ==
    /\ InfiniteGen /\ batch_size = 2
    /\ Len(yielded) = 3 /\ new_envs = 6
    /\ yielded[3][2].id = 6

\* --------------------------------------------------------- CalculatorEnv

CheckAnswerCalled == ret.op = "check_answer"

\* C14: check_answer never raises and always reports done=True; it reports
\* (False, tool_failure_reward) for a string that float() rejects,
\* correct_reward for an answer within the tolerance and incorrect_reward for
\* any other.
C14_CheckAnswer ==
    CheckAnswerCalled =>
        /\ pc = "returned"
        /\ ret.out.raises = NoExc
        /\ ret.out.returns.type = "tuple"
        /\ ret.out.returns.val[3] = TRUE
        /\ ret.arg \in {"abc", "", "4,0"} =>
              /\ ret.out.returns.val[1] = Bool(FALSE)
              /\ ret.out.returns.val[2] = ret.env.config.tool_failure_reward
        /\ ret.arg \notin {"abc", "", "4,0"} =>
              ret.out.returns.val[2] =
                 IF ret.out.returns.val[1] = Bool(TRUE)
                 THEN ret.env.config.correct_reward
                 ELSE ret.env.config.incorrect_reward
        /\ ret.env = [answer |-> 40000, config |-> DefaultConfig] =>
              (ret.out.returns.val[2] = 1 <=> ret.arg \in {"4", "4.0", " 4 ", "4.0003"})

StepCalled == ret.op = "step"

\* C13: a step whose action has tool calls returns (it does not raise), with
\* one response per tool call of the action, the i-th response carrying the
\* id and name of the i-th tool call, and with a truncated flag.
C13_StepPairsResponses ==
    StepCalled /\ ret.arg # <<>> =>
        /\ pc = "returned"
        /\ ret.out.raises = NoExc
        /\ Len(ret.out.msgs) = Len(ret.arg)
        /\ \A i \in 1..Len(ret.arg) :
              /\ ret.out.msgs[i].role = "tool"
              /\ ret.out.msgs[i].tool_call_id = ret.arg[i].id
              /\ ret.out.msgs[i].name = ret.arg[i].name
        /\ ret.out.done \in BOOLEAN
        /\ ret.out.truncated = FALSE

\* ---------------------------------------------------------- GSM8kDataset

\* The train_full indices of the rows of a dataset.
IndicesOf(ds) == {ds.src_df[k].index : k \in 1..len(ds)}

\* C15: of the n rows of train_full, val holds exactly those with
\* index % 5 = 0 and train exactly those with index % 5 # 0, each once; the
\* problem_id of a row is "<split>_<index>" and no two rows of a split share
\* one; and get_new_env_by_idx(k) is the environment of the k-th row of the
\* split, which in val is row 5k of train_full and in train row k + k \div 4 + 1.
C15_SplitsPartition ==
    ret.op = "get_new_env_by_idx" =>
        LET train == GSM8kDataset("train", ret.n)
            val == GSM8kDataset("val", ret.n)
            ds == ret.ds
        IN /\ IndicesOf(val) = {i \in 0..(ret.n - 1) : i % 5 = 0}
           /\ IndicesOf(train) = {i \in 0..(ret.n - 1) : i % 5 # 0}
           /\ IndicesOf(val) \cap IndicesOf(train) = {}
           /\ len(val) + len(train) = ret.n
           /\ Cardinality(IndicesOf(val)) = len(val)
           /\ Cardinality(IndicesOf(train)) = len(train)
           /\ \A k \in 1..len(ds) :
                 ds.src_df[k].problem_id = ds.split \o "_" \o ToString(ds.src_df[k].index)
           /\ \A j, k \in 1..len(ds) :
                 j # k => ds.src_df[j].problem_id # ds.src_df[k].problem_id
           /\ \A j, k \in 1..len(ds) : j < k => ds.src_df[j].index < ds.src_df[k].index
           /\ ds.split = "val" => ret.out.problem_id = "val_" \o ToString(5 * ret.arg)
           /\ ds.split = "train" =>
                 ret.out.problem_id = "train_" \o ToString(ret.arg + (ret.arg \div 4) + 1)
           /\ ds.split \in {"train_full", "test"} =>
                 ret.out.problem_id = ds.split \o "_" \o ToString(ret.arg)

\* The environment at position 2 of val, of 11 rows of train_full, is problem
\* val_10.
C15_Witness ==
    /\ ret.op = "get_new_env_by_idx"
    /\ ret.ds.split = "val" /\ ret.n = 11 /\ ret.arg = 2
    /\ ret.out.problem_id = "val_10"

\* --------------------------------------------------------- partial_format

\* The value supplied for a key, "" when the key is not among the formats.
Supplied(formats, key) ==
    IF \E i \in 1..Len(formats) : formats[i].key = key
    THEN formats[CHOOSE i \in 1..Len(formats) : formats[i].key = key].val
    ELSE ""

\* C16: in the string partial_format returns, every field of the argument
\* whose key is supplied has been replaced by the supplied value and every
\* field whose key is not supplied is still that field.
C16_PartialFormat ==
    ret.op = "partial_format" =>
        /\ Len(ret.out) = Len(ret.arg)
        /\ \A i \in 1..Len(ret.arg) :
              ret.arg[i].t = "field" =>
                 ret.out[i] = IF Supplied(ret.formats, ret.arg[i].s) # ""
                              THEN Lit(Supplied(ret.formats, ret.arg[i].s))
                              ELSE ret.arg[i]

\* --------------------------------------------------------------- from_name

C18_ContentByType ==
    (ExecActive /\ pc = "returned") =>
        \A i \in 1..NCalls :
           /\ result[i].content \in STRING
           /\ task[i].fn = "returned" =>
                 result[i].content =
                    IF BodyOf(i).returns.type = "str" THEN BodyOf(i).returns.val
                    ELSE IF BodyOf(i).returns.type = "BaseModel" THEN "{\"defaultedInt\":1}"
                    ELSE "null"

Queued(cb) == \E k \in 1..Len(ready) : ready[k] = cb

\* C20: once exec_tool_calls(ordered=False, handle_tool_exc=False) has raised,
\* every other run of _exec_tool_call is finished or still alive: suspended
\* with its tool function running and able to finish, or woken with its wake-up
\* queued, and the loop can run the callback at the head of its queue; no run
\* is cancelled.  With ordered=True no call after a failed one has a run
\* begun, a function called or a first step queued.
C20_NoCancellation ==
    ExecActive =>
        /\ (~ordered /\ ~handle_tool_exc /\ pc = "raised") =>
              /\ \A j \in 1..NCalls :
                    /\ task[j].st \in {"suspended", "woken", "done", "failed"}
                    /\ task[j].st = "suspended" =>
                          /\ task[j].fn = "running"
                          /\ ENABLED (AwaitedDone(j) \/ ThreadFinish(j))
                    /\ task[j].st = "woken" => Queued(Callback("wakeup", j))
              /\ ready # <<>> =>
                    ENABLED (Wakeup(Head(ready).i) \/ GatherDoneCallback(Head(ready).i))
        /\ ordered =>
              \A k \in 1..NCalls :
                 task[k].st = "failed" =>
                    \A j \in (k + 1)..NCalls :
                       /\ task[j] = NewTask
                       /\ ~Queued(Callback("step", j))

\* exec_tool_calls has raised the exception of async_fail to the caller while
\* the function of the other call of the message, async_add, is still running.
C20_Witness ==
    /\ ExecActive /\ ~ordered /\ ~handle_tool_exc /\ pc = "raised"
    /\ raisedExc = Exc("ZeroDivisionError", "division by zero")
    /\ \E j \in 1..NCalls :
          /\ Call(j).name = "async_add"
          /\ task[j].st = "suspended" /\ task[j].fn = "running"

\* ------------------------------------------------------------- DummyEnv

\* C21: after reset the state is the one initial message, reward 0, done
\* False.  A step that returns has appended the responses it returns to
\* state.messages and, unless print_story ran in it, changed nothing else; a
\* step in which print_story ran returns, and once print_story has run since
\* the reset the state has reward 1 and done = end_immediately, which are what
\* a step that returns reports; a step that raises leaves the state as it was.
C21_EpisodeHistory ==
    /\ ret.op = "reset" =>
          dummy.state = [messages |-> <<Message("Write a 5 word story via print_story")>>,
                         reward |-> 0, done |-> FALSE]
    /\ ret.op = "dummy_step" =>
          /\ ret.out.raises = NoExc =>
                /\ dummy.state.messages = ret.before.messages \o ret.out.msgs
                /\ ret.out.reward = dummy.state.reward
                /\ ret.out.done = dummy.state.done
                /\ ret.out.truncated = FALSE
                /\ ~ret.ran_print_story =>
                      /\ dummy.state.reward = ret.before.reward
                      /\ dummy.state.done = ret.before.done
          /\ ret.ran_print_story => ret.out.raises = NoExc
          /\ ret.out.raises # NoExc => dummy.state = ret.before
    /\ (dummy.is_reset /\ dummy.printed) =>
          /\ dummy.state.reward = 1
          /\ dummy.state.done = dummy.end_immediately

====
